---- MODULE Spec2Model ----
(***************************************************************************)
(* Model of the EJS view generator of package nodejs (generateEJSViews and *)
(* its helpers): root selection, boundary selection, nested-candidate      *)
(* collection, naming, tree rewriting and placeholder resolution.          *)
(*                                                                         *)
(* The parsed document is an arena of nodes.  Node 0 is <body>; nodes 1..n *)
(* are the elements below it, numbered in document (pre-)order.  A node's  *)
(* text is its leading text child; children[m] lists the element and       *)
(* comment children that follow it.  Strings are real strings, so names,   *)
(* rendered HTML and the string-level substitutions are computed as the    *)
(* code computes them.                                                     *)
(***************************************************************************)
EXTENDS Integers, Sequences, FiniteSets, TLC

VARIABLES doc, parent, children, pc, root, primaryNodes, components, idx,
          usedNames, nameByContent, resolved, rendered, partials,
          broken, turn, other, solo

vars == <<doc, parent, children, pc, root, primaryNodes, components, idx,
          usedNames, nameByContent, resolved, rendered, partials,
          broken, turn, other, solo>>

\* Largest number of elements below <body> in an input document.
MaxNodes == 4

\* Fuel of the recursive include expansion used by the round-trip check.
MaxExpand == 6

\* Largest number of elements below <body> in a document of two interleaved
\* calls.
MaxPairNodes == 2

\* Largest number of wrappers around the content of a deep document.
MaxShells == 5

\* Largest number of plain <div> between the head and the leaves of a deep
\* document.
MaxFiller == 6
\* The largest number of elements in a document with embeds.
MaxEmbedNodes == 4
\* The largest number of elements in a document whose replacements are
\* applied in every order.
MaxOrderNodes == 4
\* The largest number of repeated elements in a document.
MaxRepeat == 3

Body == 0
Nil == 0 - 1
\* The <html> element, parent of <body>.
HtmlNode == 0 - 2
\* html.Parse puts <body> under <html> under the document node.
BodyDepth == 2

---------------------------------------------------------------------------
\* Strings (package strings)

Chr(s, i) == SubSeq(s, i, i)

Contains(s, sub) ==
  \/ Len(sub) = 0
  \/ \E i \in 1..(Len(s) - Len(sub) + 1) : SubSeq(s, i, i + Len(sub) - 1) = sub

HasPrefix(s, p) == Len(s) >= Len(p) /\ SubSeq(s, 1, Len(p)) = p

UpperChars == "ABCDEFGHIJKLMNOPQRSTUVWXYZ"
LowerChars == "abcdefghijklmnopqrstuvwxyz"
DigitChars == "0123456789"

CharsOf(alphabet) == {Chr(alphabet, i) : i \in 1..Len(alphabet)}

IndexIn(alphabet, c) ==
  IF \E i \in 1..Len(alphabet) : Chr(alphabet, i) = c
  THEN CHOOSE i \in 1..Len(alphabet) : Chr(alphabet, i) = c
  ELSE 0

UpperSet == CharsOf(UpperChars)
LowerSet == CharsOf(LowerChars)
DigitSet == CharsOf(DigitChars)

\* r - 'A' + 'a' for the upper-case letters.
LowerOf == [c \in UpperSet |-> Chr(LowerChars, IndexIn(UpperChars, c))]

LowerChar(c) == IF c \in UpperSet THEN LowerOf[c] ELSE c

RECURSIVE ToLower(_)
ToLower(s) == IF Len(s) = 0 THEN "" ELSE LowerChar(Chr(s, 1)) \o ToLower(Tail(s))

IsSpace(c) == c \in {" ", "\t", "\n", "\r"}

RECURSIVE TrimLeft(_)
TrimLeft(s) == IF Len(s) > 0 /\ IsSpace(Chr(s, 1)) THEN TrimLeft(Tail(s)) ELSE s

RECURSIVE TrimRight(_)
TrimRight(s) ==
  IF Len(s) > 0 /\ IsSpace(Chr(s, Len(s))) THEN TrimRight(SubSeq(s, 1, Len(s) - 1)) ELSE s

TrimSpace(s) == TrimRight(TrimLeft(s))

\* strings.Fields: the maximal runs of non-space characters, in order.
RECURSIVE FieldsFrom(_, _)
FieldsFrom(s, cur) ==
  IF Len(s) = 0 THEN (IF Len(cur) = 0 THEN <<>> ELSE <<cur>>)
  ELSE IF IsSpace(Chr(s, 1))
       THEN (IF Len(cur) = 0 THEN <<>> ELSE <<cur>>) \o FieldsFrom(Tail(s), "")
       ELSE FieldsFrom(Tail(s), cur \o Chr(s, 1))

Fields(s) == FieldsFrom(s, "")

\* strings.ReplaceAll for a non-empty old string: leftmost, non-overlapping.
RECURSIVE ReplaceAll(_, _, _)
ReplaceAll(s, old, new) ==
  LET matches == {i \in 1..(Len(s) - Len(old) + 1) : SubSeq(s, i, i + Len(old) - 1) = old}
  IN  IF matches = {} THEN s
      ELSE LET first == CHOOSE i \in matches : \A j \in matches : i <= j
           IN  SubSeq(s, 1, first - 1) \o new
               \o ReplaceAll(SubSeq(s, first + Len(old), Len(s)), old, new)

\* Byte order of the characters that occur in class names.
ByteOrder == "-0123456789_abcdefghijklmnopqrstuvwxyz"

RECURSIVE StrLess(_, _)
StrLess(a, b) ==
  IF Len(b) = 0 THEN FALSE
  ELSE IF Len(a) = 0 THEN TRUE
  ELSE IF Chr(a, 1) = Chr(b, 1) THEN StrLess(Tail(a), Tail(b))
  ELSE IndexIn(ByteOrder, Chr(a, 1)) < IndexIn(ByteOrder, Chr(b, 1))

\* sort.Strings on a duplicate-free list.
RECURSIVE SortStrings(_)
SortStrings(ss) ==
  IF Len(ss) = 0 THEN <<>>
  ELSE LET m == CHOOSE i \in 1..Len(ss) : \A j \in 1..Len(ss) : ~StrLess(ss[j], ss[i])
       IN  <<ss[m]>> \o SortStrings(SubSeq(ss, 1, m - 1) \o SubSeq(ss, m + 1, Len(ss)))

RECURSIVE Join(_, _)
Join(ss, sep) ==
  IF Len(ss) = 0 THEN ""
  ELSE IF Len(ss) = 1 THEN ss[1]
  ELSE ss[1] \o sep \o Join(Tail(ss), sep)

InList(list, x) == \E i \in 1..Len(list) : list[i] = x

ContainsAny(s, list) == \E i \in 1..Len(list) : Contains(s, list[i])

---------------------------------------------------------------------------
\* The document tree (golang.org/x/net/html Node)

Attr(n) == IF n = Body THEN [tag |-> "body", class |-> "", id |-> "", role |-> "", text |-> ""]
           ELSE doc.attr[n]

Nodes == 0..doc.n

El(n) == [kind |-> "el", id |-> n, name |-> ""]
Ph(n, nm) == [kind |-> "ph", id |-> n, name |-> nm]

\* The element children of n, in sibling order.
elementChildren(n) ==
  LET es == SelectSeq(children[n], LAMBDA e : e.kind = "el")
  IN  [i \in 1..Len(es) |-> es[i].id]

elementChildCount(n) == Len(elementChildren(n))

getAttributeValue(n, key) ==
  IF key = "class" THEN Attr(n).class
  ELSE IF key = "id" THEN Attr(n).id
  ELSE IF key = "role" THEN Attr(n).role
  ELSE ""

isNonContentElement(n) ==
  Attr(n).tag \in {"script", "style", "link", "meta", "title", "noscript",
                   "svg", "path", "circle", "rect", "line", "polygon", "polyline",
                   "defs", "g", "use"}

contentChildren(n) == SelectSeq(elementChildren(n), LAMBDA c : ~isNonContentElement(c))

\* The first child that decides: the leading text, then the elements in order.
isEmbedOnlyNode(n) ==
  IF ~Contains(ToLower(getAttributeValue(n, "class")), "w-embed") THEN FALSE
  ELSE IF TrimSpace(Attr(n).text) # "" THEN TRUE
  ELSE LET cs == elementChildren(n)
       IN  IF \E i \in 1..Len(cs) : Attr(cs[i]).tag \notin {"style", "script", "link"}
           THEN FALSE
           ELSE Len(cs) > 0

isComponentCandidate(n) ==
  IF isNonContentElement(n) \/ isEmbedOnlyNode(n) THEN FALSE
  ELSE IF getAttributeValue(n, "data-component") # "" THEN TRUE
  ELSE Attr(n).tag \notin {"html", "head", "body"}

WrapperHints == <<"wrapper", "container", "page", "main", "layout", "root", "app", "site", "content">>

\* Variant: a div, main or section is a wrapper only with a wrapper hint in
\* its class or id.
isWrapperElementHintsOnly(n) ==
  IF Attr(n).tag \in {"div", "main", "section"}
  THEN \/ ContainsAny(ToLower(getAttributeValue(n, "class")), WrapperHints)
       \/ ContainsAny(ToLower(getAttributeValue(n, "id")), WrapperHints)
  ELSE FALSE

isWrapperElement(n) ==
  IF Attr(n).tag \in {"div", "main", "section"}
  THEN IF \/ ContainsAny(ToLower(getAttributeValue(n, "class")), WrapperHints)
          \/ ContainsAny(ToLower(getAttributeValue(n, "id")), WrapperHints)
       THEN TRUE
       ELSE TRUE
  ELSE FALSE

RECURSIVE nodeTextLength(_)
nodeTextLength(n) ==
  LET cs == elementChildren(n)
      F[i \in 0..Len(cs)] == IF i = 0 THEN 0 ELSE F[i - 1] + nodeTextLength(cs[i])
  IN  Len(TrimSpace(Attr(n).text)) + F[Len(cs)]

RECURSIVE nodeDepth(_)
nodeDepth(n) == IF n = Body THEN BodyDepth ELSE 1 + nodeDepth(parent[n])

---------------------------------------------------------------------------
\* Candidate selection

RootMaxDepth == 4
SectionMaxDepth == 5
NestedMaxDepth == 6

RECURSIVE RootFrom(_, _)
\* Variant: the descent has no depth limit.
RootFromUnbounded(r, depth) ==
  LET cs == contentChildren(r)
  IN  IF Len(cs) # 1 THEN r
      ELSE IF isWrapperElement(cs[1]) THEN RootFrom(cs[1], depth + 1)
      ELSE r

RootFrom(r, depth) ==
  IF depth >= RootMaxDepth THEN r
  ELSE LET cs == contentChildren(r)
       IN  IF Len(cs) # 1 THEN r
           ELSE IF isWrapperElement(cs[1]) THEN RootFrom(cs[1], depth + 1)
           ELSE r

selectComponentRoot(body) == RootFrom(body, 0)

SectionKeywords ==
  <<"navbar", "nav", "menu", "header", "footer", "hero", "section", "cta",
    "pricing", "gallery", "grid", "slider", "carousel", "tabs", "accordion", "form">>

isSectionBoundary(n) ==
  IF isNonContentElement(n) \/ isEmbedOnlyNode(n) THEN FALSE
  ELSE IF Attr(n).tag \in {"nav", "header", "footer", "section", "main", "aside"} THEN TRUE
  ELSE LET combined == ToLower(getAttributeValue(n, "class")) \o " "
                         \o ToLower(getAttributeValue(n, "id"))
       IN  IF combined = " " THEN FALSE ELSE ContainsAny(combined, SectionKeywords)

RECURSIVE walkSections(_, _, _)
\* Variant: a recorded boundary is searched for further boundaries.
walkSectionsInside(n, depth, maxDepth) ==
  IF depth >= maxDepth THEN <<>>
  ELSE LET cs == elementChildren(n)
           F[i \in 0..Len(cs)] ==
             IF i = 0 THEN <<>>
             ELSE F[i - 1] \o (IF isSectionBoundary(cs[i]) THEN <<cs[i]>> ELSE <<>>)
                          \o walkSections(cs[i], depth + 1, maxDepth)
       IN  F[Len(cs)]

walkSections(n, depth, maxDepth) ==
  IF depth >= maxDepth THEN <<>>
  ELSE LET cs == elementChildren(n)
           F[i \in 0..Len(cs)] ==
             IF i = 0 THEN <<>>
             ELSE F[i - 1] \o (IF isSectionBoundary(cs[i]) THEN <<cs[i]>>
                               ELSE walkSections(cs[i], depth + 1, maxDepth))
       IN  F[Len(cs)]

\* Variant: the walk does not recurse below the children of the root.
collectSectionComponentsShallow(r, maxDepth) == walkSections(r, 0, 1)

\* Variant: the walk looks at the root itself before its children.
collectSectionComponentsWithRoot(r, maxDepth) ==
  (IF r # Body /\ isSectionBoundary(r) THEN <<r>> ELSE <<>>) \o walkSections(r, 0, maxDepth)

collectSectionComponents(r, maxDepth) == walkSections(r, 0, maxDepth)

filterComponentCandidates(nodes) == SelectSeq(nodes, isComponentCandidate)

\* Variant: a single surviving child is not returned.
selectComponentNodesNoSingle(r) ==
  LET sections == collectSectionComponents(r, SectionMaxDepth)
      kids == filterComponentCandidates(contentChildren(r))
  IN  IF Len(sections) > 1 THEN sections
      ELSE IF Len(kids) > 1 THEN kids
      ELSE IF Len(kids) = 1
           THEN LET deeper == filterComponentCandidates(contentChildren(kids[1]))
                IN  IF Len(deeper) > 1 THEN deeper ELSE <<>>
      ELSE kids

\* Variant: a single boundary is enough for the boundaries to be used.
selectComponentNodesOneSection(r) ==
  LET sections == collectSectionComponents(r, SectionMaxDepth)
      kids == filterComponentCandidates(contentChildren(r))
  IN  IF Len(sections) >= 1 THEN sections
      ELSE IF Len(kids) > 1 THEN kids
      ELSE IF Len(kids) = 1
           THEN LET deeper == filterComponentCandidates(contentChildren(kids[1]))
                IN  IF Len(deeper) > 1 THEN deeper ELSE kids
      ELSE kids

selectComponentNodes(r) ==
  LET sections == collectSectionComponents(r, SectionMaxDepth)
      kids == filterComponentCandidates(contentChildren(r))
  IN  IF Len(sections) > 1 THEN sections
      ELSE IF Len(kids) > 1 THEN kids
      ELSE IF Len(kids) = 1
           THEN LET deeper == filterComponentCandidates(contentChildren(kids[1]))
                IN  IF Len(deeper) > 1 THEN deeper ELSE kids
      ELSE kids

isStateClass(className) ==
  \/ className \in {"active", "current", "open", "closed", "selected"}
  \/ HasPrefix(className, "is-")
  \/ HasPrefix(className, "has-")
  \/ HasPrefix(className, "js-")
  \/ HasPrefix(className, "w--")

\* The kept classes in first-occurrence order, then sorted.
RECURSIVE normalizeFrom(_, _)
normalizeFrom(classes, filtered) ==
  IF Len(classes) = 0 THEN filtered
  ELSE LET className == ToLower(TrimSpace(classes[1]))
       IN  IF className = "" \/ isStateClass(className) \/ InList(filtered, className)
           THEN normalizeFrom(Tail(classes), filtered)
           ELSE normalizeFrom(Tail(classes), Append(filtered, className))

\* Variant: the kept classes are not sorted.
normalizeClassListUnsorted(classes) == normalizeFrom(classes, <<>>)

normalizeClassList(classes) == SortStrings(normalizeFrom(classes, <<>>))

componentPatternKey(n) ==
  LET classes == normalizeClassList(Fields(getAttributeValue(n, "class")))
  IN  IF Len(classes) = 0 THEN Attr(n).tag
      ELSE Attr(n).tag \o "." \o Join(classes, ".")

ComponentKeywords ==
  <<"navbar", "nav", "menu", "header", "footer", "hero", "section", "cta",
    "button", "btn", "card", "tile", "banner", "pricing", "gallery", "feature",
    "testimonial", "form", "input", "field", "dropdown", "modal", "popup",
    "slider", "carousel", "tabs", "accordion">>

hasComponentKeyword(n) ==
  LET combined == ToLower(getAttributeValue(n, "class")) \o " "
                    \o ToLower(getAttributeValue(n, "id"))
  IN  IF TrimSpace(combined) = "" THEN FALSE ELSE ContainsAny(combined, ComponentKeywords)

isButtonElement(n) ==
  \/ Attr(n).tag = "button"
  \/ ToLower(getAttributeValue(n, "role")) = "button"
  \/ /\ Attr(n).tag = "a"
     /\ \/ Contains(ToLower(getAttributeValue(n, "class")), "button")
        \/ Contains(ToLower(getAttributeValue(n, "class")), "btn")

LayoutHints == <<"wrapper", "container", "page", "layout", "root", "app", "site", "content">>

isLayoutContainer(n) ==
  \/ ContainsAny(ToLower(getAttributeValue(n, "class")), LayoutHints)
  \/ ContainsAny(ToLower(getAttributeValue(n, "id")), LayoutHints)

hasMeaningfulContent(n) == elementChildCount(n) >= 2 \/ nodeTextLength(n) >= 20

hasIdentifyingClassOrID(n) ==
  getAttributeValue(n, "class") # "" \/ getAttributeValue(n, "id") # ""

\* Variant: the layout-container test is missing.
shouldSelectIgnoringLayout(n, patternCount) ==
  IF isNonContentElement(n) \/ isEmbedOnlyNode(n) THEN FALSE
  ELSE IF isButtonElement(n) THEN TRUE
  ELSE IF hasComponentKeyword(n) /\ (elementChildCount(n) > 0 \/ nodeTextLength(n) > 10) THEN TRUE
  ELSE patternCount >= 2 /\ hasIdentifyingClassOrID(n) /\ hasMeaningfulContent(n)

shouldSelectNestedComponent(n, patternCount) ==
  IF isNonContentElement(n) \/ isEmbedOnlyNode(n) THEN FALSE
  ELSE IF isLayoutContainer(n) /\ ~hasComponentKeyword(n) THEN FALSE
  ELSE IF isButtonElement(n) THEN TRUE
  ELSE IF hasComponentKeyword(n) /\ (elementChildCount(n) > 0 \/ nodeTextLength(n) > 10) THEN TRUE
  ELSE patternCount >= 2 /\ hasIdentifyingClassOrID(n) /\ hasMeaningfulContent(n)

\* The nodes both walks of collectNestedComponentsInRoot look at: the candidate
\* elements 1..maxDepth levels below r, in document order.
RECURSIVE walkNested(_, _, _)
walkNested(n, depth, maxDepth) ==
  IF depth > maxDepth THEN <<>>
  ELSE LET cs == elementChildren(n)
           F[i \in 0..Len(cs)] ==
             IF i = 0 THEN <<>> ELSE F[i - 1] \o walkNested(cs[i], depth + 1, maxDepth)
       IN  (IF depth > 0 /\ isComponentCandidate(n) THEN <<n>> ELSE <<>>) \o F[Len(cs)]

\* Variant: the occurrences are counted over the whole document.
patternCountInDocument(visited, key) ==
  Cardinality({n \in 1..doc.n : isComponentCandidate(n) /\ componentPatternKey(n) = key})

patternCountIn(visited, key) ==
  Cardinality({i \in 1..Len(visited) : componentPatternKey(visited[i]) = key})

collectNestedComponentsInRoot(r, maxDepth) ==
  LET visited == walkNested(r, 0, maxDepth)
  IN  SelectSeq(visited, LAMBDA n :
        shouldSelectNestedComponent(n, patternCountIn(visited, componentPatternKey(n))))

collectNestedComponents(roots, maxDepth) ==
  LET F[i \in 0..Len(roots)] ==
        IF i = 0 THEN <<>> ELSE F[i - 1] \o collectNestedComponentsInRoot(roots[i], maxDepth)
  IN  F[Len(roots)]

RECURSIVE uniqueFrom(_, _)
uniqueFrom(nodes, unique) ==
  IF Len(nodes) = 0 THEN unique
  ELSE IF InList(unique, nodes[1]) THEN uniqueFrom(Tail(nodes), unique)
  ELSE uniqueFrom(Tail(nodes), Append(unique, nodes[1]))

uniqueNodes(nodes) == uniqueFrom(nodes, <<>>)

\* sort.Slice with less = deeper first.  Lists of at most 12 elements are
\* insertion-sorted, which keeps equal depths in their incoming order.
RECURSIVE sortFrom(_, _)
sortFrom(nodes, d) ==
  IF d < 0 THEN <<>>
  ELSE SelectSeq(nodes, LAMBDA n : nodeDepth(n) = d) \o sortFrom(nodes, d - 1)

\* Variant: less = shallower first.
sortByDepthAsc(nodes) ==
  LET byDepth[d \in 0..(BodyDepth + doc.n)] ==
        IF d = 0 THEN SelectSeq(nodes, LAMBDA n : nodeDepth(n) = 0)
        ELSE byDepth[d - 1] \o SelectSeq(nodes, LAMBDA n : nodeDepth(n) = d)
  IN  byDepth[BodyDepth + doc.n]

\* Variant: the list is left in the order in which it was collected.
sortByDepthSkipped(nodes) == nodes

sortByDepthDesc(nodes) == sortFrom(nodes, BodyDepth + doc.n)

\* Variant: the top-level candidates are left out of the list.
collectBodyComponentsNestedOnly(r) ==
  LET primary == selectComponentNodes(r)
  IN  IF Len(primary) = 0 THEN <<>>
      ELSE LET nestedNodes == collectNestedComponents(primary, NestedMaxDepth)
               nodes == sortByDepthDesc(uniqueNodes(nestedNodes))
           IN  SelectSeq(nodes, isComponentCandidate)

collectBodyComponents(r) ==
  LET primary == selectComponentNodes(r)
  IN  IF Len(primary) = 0 THEN <<>>
      ELSE LET nestedNodes == collectNestedComponents(primary, NestedMaxDepth)
               nodes == sortByDepthDesc(uniqueNodes(nestedNodes \o primary))
           IN  SelectSeq(nodes, isComponentCandidate)

---------------------------------------------------------------------------
\* Rendering (html.Render) and formatting (formatter.Format)

MarkerPrefix == "EJS_INCLUDE:"

renderAttrs(n) ==
  (IF Attr(n).class # "" THEN " class=\"" \o Attr(n).class \o "\"" ELSE "")
  \o (IF Attr(n).id # "" THEN " id=\"" \o Attr(n).id \o "\"" ELSE "")
  \o (IF Attr(n).role # "" THEN " role=\"" \o Attr(n).role \o "\"" ELSE "")

\* html.Render of the subtree of n in the tree whose child lists are ch.
RECURSIVE renderIn(_, _)
renderIn(ch, n) ==
  LET es == ch[n]
      F[i \in 0..Len(es)] ==
        IF i = 0 THEN ""
        ELSE F[i - 1] \o (IF es[i].kind = "ph"
                          THEN "<!--" \o MarkerPrefix \o es[i].name \o "-->"
                          ELSE renderIn(ch, es[i].id))
  IN  "<" \o Attr(n).tag \o renderAttrs(n) \o ">" \o Attr(n).text \o F[Len(es)]
      \o "</" \o Attr(n).tag \o ">"

renderNodeHTML(n) == renderIn(children, n)

renderDocument(ch) == "<html><head></head>" \o renderIn(ch, Body) \o "</html>"

RECURSIVE Tabs(_)
Tabs(depth) == IF depth <= 0 THEN "" ELSE "\t" \o Tabs(depth - 1)

hasOnlyTextChildren(ch, n) == \A i \in 1..Len(ch[n]) : ch[n][i].kind # "el"

hasChildren(ch, n) == Attr(n).text # "" \/ Len(ch[n]) > 0

\* formatNode on the re-parsed rendering: element, text and comment cases.
RECURSIVE formatNode(_, _, _)
formatNode(ch, n, depth) ==
  LET es == ch[n]
      onlyText == hasOnlyTextChildren(ch, n)
      breakLines == ~onlyText /\ hasChildren(ch, n)
      text == TrimSpace(Attr(n).text)
      F[i \in 0..Len(es)] ==
        IF i = 0 THEN ""
        ELSE F[i - 1] \o (IF es[i].kind = "ph"
                          THEN Tabs(depth + 1) \o "<!--" \o MarkerPrefix \o es[i].name \o "-->\n"
                          ELSE formatNode(ch, es[i].id, depth + 1))
  IN  Tabs(depth) \o "<" \o Attr(n).tag \o renderAttrs(n) \o ">"
      \o (IF breakLines THEN "\n" ELSE "")
      \o (IF text = "" THEN ""
          ELSE IF onlyText THEN text
          ELSE Tabs(depth + 1) \o text \o "\n")
      \o F[Len(es)]
      \o (IF breakLines THEN Tabs(depth) ELSE "")
      \o "</" \o Attr(n).tag \o ">\n"

Format(ch) == "<html>\n" \o Tabs(1) \o "<head></head>\n" \o formatNode(ch, Body, 1) \o "</html>\n"

---------------------------------------------------------------------------
\* Naming

IsAlnum(c) == c \in LowerSet \/ c \in DigitSet

RECURSIVE sanitizeFrom(_, _)
sanitizeFrom(name, lastDash) ==
  IF Len(name) = 0 THEN ""
  ELSE LET r == LowerChar(Chr(name, 1))
       IN  IF IsAlnum(r) THEN r \o sanitizeFrom(Tail(name), FALSE)
           ELSE IF ~lastDash THEN "-" \o sanitizeFrom(Tail(name), TRUE)
           ELSE sanitizeFrom(Tail(name), TRUE)

RECURSIVE TrimDashes(_)
TrimDashes(s) ==
  IF Len(s) > 0 /\ Chr(s, 1) = "-" THEN TrimDashes(Tail(s))
  ELSE IF Len(s) > 0 /\ Chr(s, Len(s)) = "-" THEN TrimDashes(SubSeq(s, 1, Len(s) - 1))
  ELSE s

\* Variant: the dashes at the ends are kept.
sanitizeComponentNameUntrimmed(name) == sanitizeFrom(name, FALSE)

sanitizeComponentName(name) == TrimDashes(sanitizeFrom(name, FALSE))

\* The base name of buildComponentName before the usage counter is consulted.
componentBase(n, index) ==
  LET id == getAttributeValue(n, "id")
      classAttr == getAttributeValue(n, "class")
      raw == IF id # "" THEN Attr(n).tag \o "-" \o id
             ELSE IF classAttr # "" /\ Len(Fields(classAttr)) > 0
                  THEN Attr(n).tag \o "-" \o Fields(classAttr)[1]
             ELSE Attr(n).tag
      base == sanitizeComponentName(raw)
  IN  IF base = "" THEN "component-" \o ToString(index + 1) ELSE base

\* Variant: a used base name is returned without its counter suffix.
buildComponentNameNoSuffix(n, index, used) == componentBase(n, index)

\* buildComponentName: the name returned ...
buildComponentName(n, index, used) ==
  LET base == componentBase(n, index)
  IN  IF base \in DOMAIN used THEN base \o "-" \o ToString(used[base] + 1) ELSE base

\* ... and the usage counter it leaves behind.
usedAfterBuild(n, index, used) ==
  LET base == componentBase(n, index)
  IN  IF base \in DOMAIN used
      THEN [used EXCEPT ![base] = @ + 1]
      ELSE (base :> 1) @@ used

---------------------------------------------------------------------------
\* Placeholder resolution

\* Variant: the comment carries no closing "-->".
placeholderOfOpen(name) == "<!--" \o MarkerPrefix \o name

placeholderOf(name) == "<!--" \o MarkerPrefix \o name \o "-->"
\* Variant: the directive names the file of the partial.
includeOfWithExtension(name) == "<%- include('partials/" \o name \o ".ejs') %>"

includeOf(name) == "<%- include('partials/" \o name \o "') %>"

\* buildIncludeReplacements: the keys are the placeholders of the resolved
\* names; the value of a key is includeOf of the same name.
buildIncludeReplacements(comps) == {comps[i].Name : i \in 1..Len(comps)}

\* Variant: the loop over the map ends after its first key.
applyFirstKeyOnly(content, order) ==
  IF Len(order) = 0 THEN content
  ELSE ReplaceAll(content, placeholderOf(order[1]), includeOf(order[1]))

\* applyIncludeReplacements, visiting the map in the order given.
RECURSIVE applyInOrder(_, _)
applyInOrder(content, order) ==
  IF Len(order) = 0 THEN content
  ELSE applyInOrder(ReplaceAll(content, placeholderOf(order[1]), includeOf(order[1])),
                    Tail(order))

\* The names in order of first use, and that order reversed.
RECURSIVE namesInOrder(_, _)
namesInOrder(comps, seen) ==
  IF Len(comps) = 0 THEN seen
  ELSE IF InList(seen, comps[1].Name) THEN namesInOrder(Tail(comps), seen)
  ELSE namesInOrder(Tail(comps), Append(seen, comps[1].Name))

Reverse(q) == [i \in 1..Len(q) |-> q[Len(q) + 1 - i]]

\* Go visits a map in an unspecified order.  The model visits the keys in
\* order of first use or in the reverse of it, so that every two keys are
\* applied in both relative orders.
Orders(comps) == {namesInOrder(comps, <<>>), Reverse(namesInOrder(comps, <<>>))}

\* The partials map built from the resolved components: first component of a name wins.
buildPartials(comps, order) ==
  [nm \in {comps[i].Name : i \in 1..Len(comps)} |->
     LET first == CHOOSE i \in 1..Len(comps) :
                    /\ comps[i].Name = nm
                    /\ \A j \in 1..(i - 1) : comps[j].Name # nm
     IN  applyInOrder(comps[first].HTML, order)]

---------------------------------------------------------------------------
\* Input documents

RECURSIVE OnPath(_, _, _)
OnPath(par, from, target) ==
  from = target \/ (from # Body /\ OnPath(par, par[from], target))

\* Numbering in document order: a node's parent lies on the path from the
\* previous node up to <body>.
IsPreorder(par, n) == par[1] = Body /\ \A i \in 2..n : par[i] < i /\ OnPath(par, i - 1, par[i])

Shapes(n) == {par \in [1..n -> 0..(n - 1)] : IsPreorder(par, n)}

childrenOf(par, n, m) ==
  LET ids == {i \in 1..n : par[i] = m}
      Nth[k \in 1..Cardinality(ids)] ==
        CHOOSE i \in ids : Cardinality({j \in ids : j < i}) = k - 1
  IN  [k \in 1..Cardinality(ids) |-> El(Nth[k])]

Elem(tag, class, text) == [tag |-> tag, class |-> class, id |-> "", role |-> "", text |-> text]

\* Elements of the naming documents.
PaletteNames ==
  { Elem("div", "card", "x"), Elem("div", "card", "y"), Elem("div", "card", "w"),
    Elem("div", "card-2", "elevenchars") }

\* Elements of the boundary documents.
PaletteBoundary ==
  { Elem("section", "", ""), Elem("header", "", ""), Elem("article", "", "") }

\* Elements of the layout documents.
PaletteLayout ==
  { Elem("div", "wrapper", "Twenty characters ok"), Elem("div", "container", ""),
    Elem("p", "", "Hello") }

\* Elements of the landing-page documents.
PaletteSections ==
  { Elem("section", "hero", ""), Elem("section", "pricing", ""), Elem("button", "", "Go") }

\* Elements of the documents rendered by a failing renderer.
PaletteFault == { Elem("div", "card", "x"), Elem("button", "", "Go") }

\* Elements of the documents of two interleaved calls.
PalettePair == { Elem("div", "card", "x"), Elem("div", "card", "w") }

\* Elements of the deep documents: the wrappers, the element below the
\* wrappers, the plain <div> below it and the leaves.
ShellKinds ==
  { Elem("div", "", ""), Elem("section", "hero", ""),
    [Elem("main", "", "") EXCEPT !.id = "app"] }
HeadKinds == { Elem("article", "", ""), Elem("header", "", ""), Elem("div", "panel", "") }
LeafKinds ==
  { Elem("button", "", "Go"), Elem("section", "", ""), Elem("div", "card", "0123456789") }
Filler == Elem("div", "", "")
\* What stands beside the leaf: nothing, a second leaf or a <script>.
TwinKinds == {"none", "same", "script"}

\* w wrappers inside one another, the head inside the innermost, m plain <div>
\* inside one another below the head, and below the last of them one leaf,
\* two sibling leaves or a leaf followed by a <script>.
DeepDoc(w, shell, head, m, leaf, twin) ==
  LET last == w + m + 2
      n == IF twin = "none" THEN last ELSE last + 1
  IN  [n |-> n,
       par |-> [i \in 1..n |-> IF i <= last THEN i - 1 ELSE last - 1],
       attr |-> [i \in 1..n |-> IF i <= w THEN shell
                                ELSE IF i = w + 1 THEN head
                                ELSE IF i < last THEN Filler
                                ELSE IF i = last \/ twin = "same" THEN leaf
                                ELSE Elem("script", "", "")]]

\* Elements of the documents with repeated elements: a classed <div> with 20
\* and with 19 characters, a bare <li> and a layout <div>.
PaletteRepeat ==
  { Elem("div", "promo", "Twenty characters ok"), Elem("div", "promo", "Nineteen characters"),
    Elem("li", "", "Twenty characters ok"), Elem("div", "wrapper", "Twenty characters ok") }

\* Elements of the documents with clickable controls: a <button>, a <button>
\* with a layout class, an anchor with a btn class and a <div role="button">.
PaletteControls ==
  { Elem("button", "", "Go"), Elem("button", "page-next", "Go"), Elem("a", "btn", "Go"),
    [Elem("div", "", "") EXCEPT !.role = "button"] }

\* Elements of the documents with embeds: a <script>, a w-embed <div> without
\* and with text, and a card <div>.
PaletteEmbed ==
  { Elem("script", "", ""), Elem("div", "w-embed", ""), Elem("div", "w-embed", "Hi"),
    Elem("div", "card", "") }

\* Elements of the documents with class lists: two classes, the same two in
\* another order, case and number, one of them with state classes, state
\* classes only, and no class.
PaletteClasses ==
  { Elem("div", "promo teaser", "Twenty characters ok"),
    Elem("div", "Teaser  promo promo", "Twenty characters ok"),
    Elem("div", "promo is-open Active", "Twenty characters ok"),
    Elem("div", "selected js-x", "Twenty characters ok"),
    Elem("div", "", "Twenty characters ok") }

\* Elements of the documents with unusual names: two classes that give the
\* same slug, and an id with punctuation at both ends.
PaletteSlugs ==
  { Elem("div", "__Card!!Big", "x"), Elem("div", "card--big", "y"),
    [Elem("div", "", "z") EXCEPT !.id = "-X.y-"] }

\* The numbers of empty <span> below the last repeated element.
SpanCounts == 0..2

\* <body> holds a first element and an <article>; the <article> holds the
\* elements of kids, the last of them holds spans empty <span>.
RepeatDoc(first, kids, spans) ==
  LET k == Len(kids)
      n == 2 + k + spans
  IN  [n |-> n,
       par |-> [i \in 1..n |-> IF i <= 2 THEN Body ELSE IF i <= 2 + k THEN 2 ELSE 2 + k],
       attr |-> [i \in 1..n |-> IF i = 1 THEN first
                                ELSE IF i = 2 THEN Elem("article", "", "")
                                ELSE IF i <= 2 + k THEN kids[i - 2]
                                ELSE Elem("span", "", "")]]

EmptyMap == [x \in {} |-> ""]

\* The locals of a call of generateEJSViews that has parsed the document d
\* and has done nothing else yet.
FreshCall(d) ==
  [doc |-> d,
   parent |-> [i \in 0..d.n |-> IF i = Body THEN HtmlNode ELSE d.par[i]],
   children |-> [m \in 0..d.n |-> childrenOf(d.par, d.n, m)],
   pc |-> "select",
   root |-> Body,
   primaryNodes |-> <<>>,
   components |-> <<>>,
   idx |-> 0,
   usedNames |-> EmptyMap,
   nameByContent |-> EmptyMap,
   resolved |-> <<>>,
   rendered |-> "",
   partials |-> EmptyMap]

\* The running call has the locals c.
Running(c) ==
  /\ doc = c.doc
  /\ parent = c.parent
  /\ children = c.children
  /\ pc = c.pc
  /\ root = c.root
  /\ primaryNodes = c.primaryNodes
  /\ components = c.components
  /\ idx = c.idx
  /\ usedNames = c.usedNames
  /\ nameByContent = c.nameByContent
  /\ resolved = c.resolved
  /\ rendered = c.rendered
  /\ partials = c.partials

NoCall == [pc |-> "none"]
NoResult == [rendered |-> "", partials |-> EmptyMap]

\* One call on the document d, with a renderer that fails on no node.
StartOn(d) ==
  /\ Running(FreshCall(d))
  /\ broken = {}
  /\ turn = "single"
  /\ other = NoCall
  /\ solo = NoResult

InitOver(palette) ==
  \E n \in 1..MaxNodes : \E par \in Shapes(n) : \E attr \in [1..n -> palette] :
    StartOn([n |-> n, par |-> par, attr |-> attr])

Init == InitOver(PaletteNames)

InitBoundary == InitOver(PaletteBoundary)

InitLayout == InitOver(PaletteLayout)

InitSections == InitOver(PaletteSections)

InitDeep ==
  \E w \in 0..MaxShells : \E m \in 0..MaxFiller :
    \E shell \in ShellKinds : \E head \in HeadKinds : \E leaf \in LeafKinds :
      \E twin \in TwinKinds :
        StartOn(DeepDoc(w, shell, head, m, leaf, twin))

InitRepeat ==
  \E k \in 1..MaxRepeat : \E first \in PaletteRepeat : \E kids \in [1..k -> PaletteRepeat] :
    \E spans \in SpanCounts :
      StartOn(RepeatDoc(first, kids, spans))

InitEmbed ==
  \E n \in 1..MaxEmbedNodes : \E par \in Shapes(n) : \E attr \in [1..n -> PaletteEmbed] :
    StartOn([n |-> n, par |-> par, attr |-> attr])

InitClasses ==
  \E k \in 1..MaxRepeat : \E first \in PaletteClasses : \E kids \in [1..k -> PaletteClasses] :
    StartOn(RepeatDoc(first, kids, 0))

InitSlugs == InitOver(PaletteSlugs)

InitOrder ==
  \E n \in 1..MaxOrderNodes : \E par \in Shapes(n) : \E attr \in [1..n -> PaletteSlugs] :
    StartOn([n |-> n, par |-> par, attr |-> attr])

InitControls ==
  \E k \in 1..MaxRepeat : \E first \in PaletteControls : \E kids \in [1..k -> PaletteControls] :
    \E spans \in SpanCounts :
      StartOn(RepeatDoc(first, kids, spans))

\* The renderer fails on no node or on one node of the document.
Faults(d) == {{}} \cup {{b} : b \in 1..d.n}

InitFault ==
  \E n \in 1..MaxNodes : \E par \in Shapes(n) : \E attr \in [1..n -> PaletteFault] :
    LET d == [n |-> n, par |-> par, attr |-> attr]
    IN  /\ Running(FreshCall(d))
        /\ broken \in Faults(d)
        /\ turn = "single"
        /\ other = NoCall
        /\ solo = NoResult

---------------------------------------------------------------------------
\* generateEJSViews

\* Lines 119-129: root and candidate selection; without candidates the input
\* is returned as it came in.
Select ==
  /\ pc = "select"
  /\ LET r == selectComponentRoot(Body)
         comps == collectBodyComponents(r)
     IN  /\ root' = r
         /\ primaryNodes' = selectComponentNodes(r)
         /\ components' = comps
         /\ IF Len(comps) = 0
            THEN /\ rendered' = renderDocument(children)
                 /\ pc' = "done"
            ELSE /\ rendered' = rendered
                 /\ pc' = "loop"
  /\ UNCHANGED <<doc, parent, children, idx, usedNames, nameByContent, resolved, partials>>
  /\ UNCHANGED <<broken, turn, other, solo>>

\* Variant: AppendChild(comment) instead of InsertBefore(comment, n).
markerChildrenAppended(ch, par, n, name) ==
  IF par[n] = Nil THEN ch
  ELSE [ch EXCEPT ![par[n]] =
          Append(SelectSeq(@, LAMBDA e : e # El(n)), Ph(n, name))]

\* replaceNodeWithIncludeMarker: InsertBefore(comment, n), then RemoveChild(n).
markerChildren(ch, par, n, name) ==
  IF par[n] = Nil THEN ch
  ELSE [ch EXCEPT ![par[n]] =
          [i \in 1..Len(@) |-> IF @[i] = El(n) THEN Ph(n, name) ELSE @[i]]]

\* Variant: RemoveChild clears the parent reference of the children of n too.
markerParentSubtree(par, n) ==
  IF par[n] = Nil THEN par
  ELSE [m \in DOMAIN par |-> IF m = n \/ par[m] = n THEN Nil ELSE par[m]]

\* Variant: RemoveChild leaves the parent reference of n in place.
markerParentKept(par, n) == par

markerParent(par, n) == IF par[n] = Nil THEN par ELSE [par EXCEPT ![n] = Nil]

\* html.Render writes the subtree of n, as the tree stands, into a
\* bytes.Buffer; it fails when it meets a node it cannot write.
RECURSIVE renderFails(_, _)
renderFails(ch, n) ==
  \/ n \in broken
  \/ \E i \in 1..Len(ch[n]) : ch[n][i].kind = "el" /\ renderFails(ch, ch[n][i].id)

\* Lines 135-158: one iteration of the extraction loop.  A candidate whose
\* rendering fails is passed over (lines 137-139).
Extract ==
  /\ pc = "loop"
  /\ idx < Len(components)
  /\ LET node == components[idx + 1]
         content == renderNodeHTML(node)
         trimmed == TrimSpace(content)
         known == trimmed \in DOMAIN nameByContent
         name == IF known THEN nameByContent[trimmed]
                 ELSE buildComponentName(node, idx, usedNames)
     IN  IF renderFails(children, node) \/ trimmed = ""
         THEN UNCHANGED <<parent, children, usedNames, nameByContent, resolved>>
         ELSE /\ usedNames' = IF known THEN usedNames
                              ELSE usedAfterBuild(node, idx, usedNames)
              /\ nameByContent' = IF known THEN nameByContent
                                  ELSE (trimmed :> name) @@ nameByContent
              /\ resolved' = Append(resolved, [Name |-> name, HTML |-> content, Node |-> node])
              /\ children' = markerChildren(children, parent, node, name)
              /\ parent' = markerParent(parent, node)
  /\ idx' = idx + 1
  /\ UNCHANGED <<doc, pc, root, primaryNodes, components, rendered, partials>>
  /\ UNCHANGED <<broken, turn, other, solo>>

\* Lines 160-183: render and format the rewritten tree, resolve the
\* placeholders in it and in every captured body.  When the rewritten tree
\* does not render, the call returns "", nil and the error (lines 163-165).
Finish ==
  /\ pc = "loop"
  /\ idx = Len(components)
  /\ IF renderFails(children, Body)
     THEN /\ rendered' = ""
          /\ partials' = EmptyMap
          /\ components' = components
          /\ pc' = "error"
     ELSE /\ \E order \in Orders(resolved) :
               /\ rendered' = applyInOrder(Format(children), order)
               /\ partials' = buildPartials(resolved, order)
          /\ components' = [i \in 1..Len(resolved) |-> resolved[i].Node]
          /\ pc' = "done"
  /\ UNCHANGED <<doc, parent, children, root, primaryNodes, idx, usedNames, nameByContent, resolved>>
  /\ UNCHANGED <<broken, turn, other, solo>>

Next == Select \/ Extract \/ Finish

Spec == Init /\ [][Next]_vars

SpecBoundary == InitBoundary /\ [][Next]_vars

SpecLayout == InitLayout /\ [][Next]_vars

SpecSections == InitSections /\ [][Next]_vars

SpecFault == InitFault /\ [][Next]_vars

SpecDeep == InitDeep /\ [][Next]_vars

SpecRepeat == InitRepeat /\ [][Next]_vars

SpecControls == InitControls /\ [][Next]_vars

SpecEmbed == InitEmbed /\ [][Next]_vars

SpecOrder == InitOrder /\ [][Next]_vars

SpecSlugs == InitSlugs /\ [][Next]_vars

SpecClasses == InitClasses /\ [][Next]_vars

\* The call has returned: `return formatted, components, nil` or the error return.
Returned == pc \in {"done", "error"}

\* The call runs on one goroutine that is never held up for ever: weak
\* fairness of Next, with ENABLED <<Next>>_vars written out as ~Returned
\* (Select is enabled at "select", Extract and Finish share "loop" between
\* idx < Len(components) and idx = Len(components)).
SpecDeepFair == InitDeep /\ [][Next]_vars /\ ([]<><<Next>>_vars \/ []<>Returned)

---------------------------------------------------------------------------
\* Two calls of generateEJSViews whose steps interleave

DocsUpTo(palette, maxN) ==
  UNION { {[n |-> n, par |-> par, attr |-> attr] :
             par \in Shapes(n), attr \in [1..n -> palette]} : n \in 1..maxN }

\* The locals of the running call.
CallState ==
  [doc |-> doc, parent |-> parent, children |-> children, pc |-> pc, root |-> root,
   primaryNodes |-> primaryNodes, components |-> components, idx |-> idx,
   usedNames |-> usedNames, nameByContent |-> nameByContent, resolved |-> resolved,
   rendered |-> rendered, partials |-> partials]

\* The running call goes on with the locals c.
Resume(c) ==
  /\ doc' = c.doc
  /\ parent' = c.parent
  /\ children' = c.children
  /\ pc' = c.pc
  /\ root' = c.root
  /\ primaryNodes' = c.primaryNodes
  /\ components' = c.components
  /\ idx' = c.idx
  /\ usedNames' = c.usedNames
  /\ nameByContent' = c.nameByContent
  /\ resolved' = c.resolved
  /\ rendered' = c.rendered
  /\ partials' = c.partials

\* Variant: usedNames is one map of the package, which a call finds as the
\* call that ran before it left it.
ResumedSharingNames(saved, running) == [saved EXCEPT !.usedNames = running.usedNames]

\* What a call finds when it runs again after another call ran: the parsed
\* tree, usedNames, nameByContent and resolved are locals of the call (lines
\* 114, 131-133), so it finds them as it left them.
Resumed(saved, running) == saved

\* The first call runs alone on its document; the second call waits on its own.
InitPair ==
  \E dA \in DocsUpTo(PalettePair, MaxPairNodes) :
    \E dB \in DocsUpTo(PalettePair, MaxPairNodes) :
      /\ Running(FreshCall(dA))
      /\ broken = {}
      /\ turn = "alone"
      /\ other = FreshCall(dB)
      /\ solo = NoResult

\* The call that ran alone has returned; its result is kept and the same
\* document is passed to a new call, which runs next to the second call.
CallAgain ==
  /\ turn = "alone"
  /\ pc = "done"
  /\ solo' = [rendered |-> rendered, partials |-> partials]
  /\ Resume(FreshCall(doc))
  /\ turn' = "A"
  /\ UNCHANGED <<broken, other>>

\* The scheduler takes the processor from the running call and gives it to
\* the other call.
Switch ==
  /\ turn \in {"A", "B"}
  /\ Resume(Resumed(other, CallState))
  /\ other' = CallState
  /\ turn' = IF turn = "A" THEN "B" ELSE "A"
  /\ UNCHANGED <<broken, solo>>

NextPair == Select \/ Extract \/ Finish \/ CallAgain \/ Switch

SpecPair == InitPair /\ [][NextPair]_vars

---------------------------------------------------------------------------
\* The input tree, as it was before the extraction loop touched it

origChildren == [m \in 0..doc.n |-> childrenOf(doc.par, doc.n, m)]

RECURSIVE origDepth(_)
origDepth(n) == IF n = Body THEN BodyDepth ELSE 1 + origDepth(doc.par[n])

RECURSIVE IsAncestor(_, _)
IsAncestor(a, n) == n # Body /\ (doc.par[n] = a \/ IsAncestor(a, doc.par[n]))

Range(q) == {q[i] : i \in 1..Len(q)}

Extracted == 1..Len(resolved)

SameContent(i, j) == TrimSpace(resolved[i].HTML) = TrimSpace(resolved[j].HTML)

\* The body the partials map stores for the content captured for resolved[i].
bodyOf(i) == applyInOrder(resolved[i].HTML, namesInOrder(resolved, <<>>))

IncludeOpen == "<%- include('partials/"

RECURSIVE StripWS(_)
StripWS(s) ==
  LET ws == {i \in 1..Len(s) : IsSpace(Chr(s, i))}
  IN  IF ws = {} THEN s
      ELSE LET first == CHOOSE i \in ws : \A j \in ws : i <= j
           IN  SubSeq(s, 1, first - 1) \o StripWS(SubSeq(s, first + 1, Len(s)))

RECURSIVE expandNames(_, _)
expandNames(s, names) ==
  IF Len(names) = 0 THEN s
  ELSE expandNames(ReplaceAll(s, includeOf(names[1]), partials[names[1]]), Tail(names))

\* Every include directive replaced by the body stored under its name, again
\* and again until none is left.
RECURSIVE Expand(_, _)
Expand(s, fuel) ==
  IF fuel = 0 \/ ~Contains(s, IncludeOpen) THEN s
  ELSE Expand(expandNames(s, namesInOrder(resolved, <<>>)), fuel - 1)

---------------------------------------------------------------------------
\* Claims

\* C1: within one run, two extracted candidates with the same trimmed
\* rendered HTML have the same partial name, each is replaced by a placeholder
\* carrying that name, and the partials map holds exactly one entry for that
\* content.
C1_SameContentOnePartial ==
  pc = "done" =>
    \A i, j \in Extracted :
      (i # j /\ SameContent(i, j)) =>
        /\ resolved[i].Name = resolved[j].Name
        /\ InList(children[doc.par[resolved[i].Node]], Ph(resolved[i].Node, resolved[i].Name))
        /\ Cardinality({nm \in DOMAIN partials : partials[nm] = bodyOf(i)}) = 1

\* C2: two extracted candidates whose trimmed rendered HTML differs never
\* receive the same partial name.
C2_NamesUnique ==
  \A i, j \in Extracted : ~SameContent(i, j) => resolved[i].Name # resolved[j].Name

\* C3: replacing every include directive of the returned main document,
\* recursively, by the body stored under its name gives back the input
\* document up to whitespace.
C3_RoundTrip ==
  pc = "done" =>
    StripWS(Expand(rendered, MaxExpand)) = StripWS(renderDocument(origChildren))

C5_NoOrphaning ==
  pc = "done" =>
    \A i \in Extracted :
      LET c == resolved[i].Node
          p == doc.par[c]
      IN  /\ Len(children[p]) = Len(origChildren[p])
          /\ \A k \in 1..Len(origChildren[p]) :
               origChildren[p][k] = El(c) => children[p][k] = Ph(c, resolved[i].Name)

\* A finished run that extracted a candidate together with a sibling that
\* precedes it and with one of its descendants.
C5_Witness ==
  /\ pc = "done"
  /\ \E i, j, k \in Extracted :
       /\ doc.par[resolved[j].Node] = resolved[i].Node
       /\ doc.par[resolved[k].Node] = doc.par[resolved[i].Node]
       /\ resolved[k].Node < resolved[i].Node

\* C6: the candidate list is the duplicate-free union of the nested and the
\* top-level candidates in order of non-increasing depth; a candidate comes
\* after every candidate below it, and when it is captured those are already
\* detached.
C6_DeepestFirst ==
  /\ (pc = "loop" /\ idx = 0) =>
       /\ \A i, j \in 1..Len(components) : i # j => components[i] # components[j]
       /\ Range(components) =
            Range(primaryNodes) \cup Range(collectNestedComponents(primaryNodes, NestedMaxDepth))
       /\ \A i, j \in 1..Len(components) :
            i < j => origDepth(components[i]) >= origDepth(components[j])
  /\ pc = "loop" =>
       \A k, m \in 1..Len(components) :
         IsAncestor(components[k], components[m]) =>
           /\ m < k
           /\ (k = idx + 1 => parent[components[m]] = Nil)

\* The loop is about to capture a candidate that has a candidate below it.
C6_Witness ==
  /\ pc = "loop"
  /\ idx < Len(components)
  /\ \E m \in 1..Len(components) : IsAncestor(components[idx + 1], components[m])

\* The state right after selection, on the tree as it was parsed.
AfterSelect == (pc = "loop" /\ idx = 0) \/ (pc = "done" /\ Len(resolved) = 0)

\* An element that matches a layout-container hint and no component keyword.
LayoutOnly(n) == n # Body /\ isLayoutContainer(n) /\ ~hasComponentKeyword(n)

\* C7 as stated: an element that matches only a layout-container hint is never
\* extracted as a partial, nested or top-level.
C7_LayoutNeverExtracted ==
  \A i \in Extracted : ~LayoutOnly(resolved[i].Node)

\* C7 amended: a layout-only element is never a nested candidate, however
\* often it recurs; it is a candidate only as a top-level candidate.
C7_LayoutOnlyTopLevel ==
  \A i \in 1..Len(components) :
    LayoutOnly(components[i]) => InList(primaryNodes, components[i])

\* A layout-only element below a top-level candidate that recurs, carries a
\* class and has meaningful content, and is not a candidate.
C7_Witness ==
  /\ AfterSelect
  /\ \E i \in 1..Len(primaryNodes) :
       LET visited == walkNested(primaryNodes[i], 0, NestedMaxDepth)
       IN  \E k \in 1..Len(visited) :
             /\ LayoutOnly(visited[k])
             /\ patternCountIn(visited, componentPatternKey(visited[k])) >= 2
             /\ hasIdentifyingClassOrID(visited[k])
             /\ hasMeaningfulContent(visited[k])
             /\ ~InList(components, visited[k])

SiblingSections(a, b) ==
  /\ a # b
  /\ doc.par[a] = doc.par[b]
  /\ Attr(a).tag = "section"
  /\ Attr(b).tag = "section"

\* C8 as stated: two sibling <section> elements anywhere below body give at
\* least two top-level candidates.
C8_BoundaryMinimum ==
  (pc # "select" /\ \E a, b \in 1..doc.n : SiblingSections(a, b)) =>
    Len(primaryNodes) >= 2

\* The boundary walk from the root arrives at s: s is a boundary at most
\* SectionMaxDepth levels below the root and nothing between the root and s
\* is a boundary.
WalkReaches(s) ==
  /\ IsAncestor(root, s)
  /\ origDepth(s) - origDepth(root) <= SectionMaxDepth
  /\ isSectionBoundary(s)
  /\ \A m \in 1..doc.n : (IsAncestor(root, m) /\ IsAncestor(m, s)) => ~isSectionBoundary(m)

\* C8 amended: two sibling <section> elements that the boundary walk reaches
\* give at least two top-level candidates.
C8_WalkMinimum ==
  (AfterSelect /\ \E a, b \in 1..doc.n :
                    SiblingSections(a, b) /\ WalkReaches(a) /\ WalkReaches(b)) =>
    Len(primaryNodes) >= 2

\* Two sibling sections found by the walk two levels below the root.
C8_Witness ==
  /\ AfterSelect
  /\ \E a, b \in 1..doc.n :
       /\ SiblingSections(a, b) /\ WalkReaches(a) /\ WalkReaches(b)
       /\ doc.par[a] # root
       /\ InList(primaryNodes, a) /\ InList(primaryNodes, b)

IsCard(n) == Attr(n).tag = "div" /\ Attr(n).class = "card"

\* Body holds three sibling <div class="card"> with pairwise different text.
ThreeCards ==
  /\ doc.n = 3
  /\ \A i \in 1..3 : doc.par[i] = Body /\ IsCard(i)
  /\ \A i, j \in 1..3 : i # j => Attr(i).text # Attr(j).text

\* C9 as stated: the three cards collapse to one partial that all three
\* placeholders reference.
C9_CardsCollapse ==
  (ThreeCards /\ pc = "done") =>
    /\ Cardinality(DOMAIN partials) = 1
    /\ \A i, j \in Extracted : resolved[i].Name = resolved[j].Name

\* C9 amended: the three cards give three partials div-card, div-card-2 and
\* div-card-3, in document order, each holding its own card and referenced by
\* the placeholder of that card.
C9_CardsStayApart ==
  (ThreeCards /\ pc = "done") =>
    /\ Len(resolved) = 3
    /\ \A i \in 1..3 : resolved[i].Node = i
    /\ <<resolved[1].Name, resolved[2].Name, resolved[3].Name>>
         = <<"div-card", "div-card-2", "div-card-3">>
    /\ DOMAIN partials = {"div-card", "div-card-2", "div-card-3"}
    /\ \A i \in 1..3 : partials[resolved[i].Name] = renderIn(origChildren, i)
    /\ children[Body] = [i \in 1..3 |-> Ph(i, resolved[i].Name)]

C9_Witness == ThreeCards /\ pc = "done" /\ Len(resolved) = 3

\* Body is <div class="container"><p>Hello</p></div>.
ContainerDoc ==
  /\ doc.n = 2
  /\ doc.par = <<0, 1>>
  /\ doc.attr[1] = Elem("div", "container", "")
  /\ doc.attr[2] = Elem("p", "", "Hello")

\* C10 as stated: the container document has no candidate, no placeholder and
\* no partial.
C10_NoCandidates ==
  (ContainerDoc /\ pc = "done") =>
    /\ Len(resolved) = 0
    /\ DOMAIN partials = {}
    /\ children = origChildren

\* C10 amended: the container is skipped as the root and its <p>, the sole
\* content child of the root, is the one candidate: it is replaced by a
\* placeholder and stored as partial p.
C10_ParagraphExtracted ==
  (ContainerDoc /\ pc = "done") =>
    /\ root = 1
    /\ primaryNodes = <<2>>
    /\ Len(resolved) = 1
    /\ resolved[1].Node = 2
    /\ DOMAIN partials = {"p"}
    /\ partials["p"] = "<p>Hello</p>"
    /\ children[1] = <<Ph(2, "p")>>
    /\ Contains(rendered, includeOf("p"))

C10_Witness == ContainerDoc /\ pc = "done" /\ Len(resolved) = 1

\* C11: when candidate selection returns an empty list, the call returns
\* without error an empty partials map and, as main document, the input
\* document formatted, with no include directive and no placeholder in it.
C11_NoCandidatesFormatted ==
  (pc = "done" /\ Len(components) = 0) =>
    /\ DOMAIN partials = {}
    /\ rendered = Format(origChildren)
    /\ ~Contains(rendered, IncludeOpen)
    /\ ~Contains(rendered, MarkerPrefix)

\* The positions at which sub occurs in s.
Occurrences(s, sub) ==
  {i \in 1..(Len(s) - Len(sub) + 1) : SubSeq(s, i, i + Len(sub) - 1) = sub}

\* The content children of body are <section class="hero"> and then
\* <section class="pricing">, whatever they hold.
HeroPricing ==
  /\ Cardinality({i \in 1..doc.n : doc.par[i] = Body}) = 2
  /\ doc.attr[1] = Elem("section", "hero", "")
  /\ \A i \in 2..doc.n : doc.par[i] = Body => doc.attr[i] = Elem("section", "pricing", "")

PricingNode == CHOOSE i \in 2..doc.n : doc.par[i] = Body

\* The name under which node n was extracted.
NameOfNode(n) == resolved[CHOOSE i \in Extracted : resolved[i].Node = n].Name

\* C12: with <section class="hero"> and <section class="pricing"> as the
\* content children of body, the top-level candidates are exactly these two in
\* document order, and the returned main document holds exactly two include
\* directives, the one of the hero section before the one of the pricing
\* section.
C12_HeroThenPricing ==
  /\ (HeroPricing /\ AfterSelect) => primaryNodes = <<1, PricingNode>>
  /\ (HeroPricing /\ pc = "done") =>
       /\ \E i \in Extracted : resolved[i].Node = 1
       /\ \E i \in Extracted : resolved[i].Node = PricingNode
       /\ Cardinality(Occurrences(rendered, IncludeOpen)) = 2
       /\ \E h \in Occurrences(rendered, includeOf(NameOfNode(1))) :
            \E q \in Occurrences(rendered, includeOf(NameOfNode(PricingNode))) : h < q

\* A finished run on such a document in which the hero section holds a
\* candidate of its own.
C12_Witness ==
  /\ HeroPricing
  /\ pc = "done"
  /\ \E i \in Extracted : IsAncestor(1, resolved[i].Node)
  /\ Cardinality(Occurrences(rendered, IncludeOpen)) = 2

Directive(x) == "<%- include('partials/" \o x \o "') %>"

\* The number of placeholders named x in the tree below n.
RECURSIVE placeholdersBelow(_, _)
placeholdersBelow(n, x) ==
  LET F[i \in 0..Len(children[n])] ==
        IF i = 0 THEN 0
        ELSE F[i - 1] + (IF children[n][i].kind = "ph"
                         THEN (IF children[n][i].name = x THEN 1 ELSE 0)
                         ELSE placeholdersBelow(children[n][i].id, x))
  IN  F[Len(children[n])]

\* Every include directive in s names a key of the partials map.
DirectivesResolve(s) ==
  \A i \in Occurrences(s, IncludeOpen) :
    \E nm \in DOMAIN partials : SubSeq(s, i, i + Len(Directive(nm)) - 1) = Directive(nm)

\* The first component extracted under the name nm.
FirstOf(nm) ==
  CHOOSE i \in Extracted :
    resolved[i].Name = nm /\ \A j \in 1..(i - 1) : resolved[j].Name # nm

OrigContent(n) == {c \in 1..doc.n : doc.par[c] = n /\ ~isNonContentElement(c)}

WrapperTag(c) == Attr(c).tag \in {"div", "main", "section"}

\* The number of steps from <body> down to the root.
RootSteps == origDepth(root) - BodyDepth

\* The root has one content child and that child is a div, main or section.
RootCouldDescend == \E c \in 1..doc.n : OrigContent(root) = {c} /\ WrapperTag(c)

\* C17: the root is <body> or lies at most 4 steps below it; every step went
\* to the sole content child of the node before, a div, main or section
\* whatever its class or id; and short of 4 steps the root is a node with no
\* or several content children or with a sole content child of another tag.
C17_RootBySoleWrappers ==
  pc # "select" =>
    /\ RootSteps <= 4
    /\ \A x \in 1..doc.n :
         (x = root \/ IsAncestor(x, root)) => (OrigContent(doc.par[x]) = {x} /\ WrapperTag(x))
    /\ RootSteps < 4 => ~RootCouldDescend

\* Four steps through wrappers that carry no wrapper hint, with a further
\* sole wrapper child left below the root.
C17_Witness ==
  /\ pc # "select"
  /\ RootSteps = 4
  /\ RootCouldDescend
  /\ Attr(root).class = "hero"

\* How many levels n lies below its ancestor a.
LevelsBelow(a, n) == origDepth(n) - origDepth(a)

\* The depth limits and the single pass over the candidates.
WithinLimits ==
  pc # "select" =>
    /\ RootSteps <= 4
    /\ \A i \in 1..Len(primaryNodes) :
         IsAncestor(root, primaryNodes[i]) /\ LevelsBelow(root, primaryNodes[i]) <= 5
    /\ \A k \in 1..Len(components) :
         \/ InList(primaryNodes, components[k])
         \/ \E i \in 1..Len(primaryNodes) :
              /\ IsAncestor(primaryNodes[i], components[k])
              /\ LevelsBelow(primaryNodes[i], components[k]) <= 6
    /\ \A i, j \in 1..Len(components) : i # j => components[i] # components[j]
    /\ \A i, j \in Extracted : i # j => resolved[i].Node # resolved[j].Node
    /\ pc = "loop" => (Len(resolved) <= idx /\ idx <= Len(components))

\* C16: every call ends; the root lies at most 4 steps below <body>, every
\* top-level candidate at most 5 levels below the root, every nested candidate
\* at most 6 levels below a top-level candidate, and no candidate is taken
\* twice.
C16_EndsWithinLimits == []WithinLimits /\ <>(pc = "done")

\* A finished call on a document with a wrapper left below the root after 4
\* steps and with a button 7 levels below a top-level candidate, which is not
\* extracted.
C16_Witness ==
  /\ pc = "done"
  /\ RootSteps = 4
  /\ RootCouldDescend
  /\ \E i \in 1..Len(primaryNodes) : \E n \in 1..doc.n :
       /\ IsAncestor(primaryNodes[i], n)
       /\ LevelsBelow(primaryNodes[i], n) = 7
       /\ isButtonElement(n)
       /\ \A k \in Extracted : resolved[k].Node # n

---------------------------------------------------------------------------
\* Top-level candidates

\* Section boundaries of the input tree.
OrigBoundaries == {n \in 1..doc.n : isSectionBoundary(n)}

\* C18: no top-level candidate is an ancestor of another top-level
\* candidate, and the list of top-level candidates is in document order.
C18_TopLevelNeverNest ==
  pc # "select" =>
    /\ \A i, j \in 1..Len(primaryNodes) : ~IsAncestor(primaryNodes[i], primaryNodes[j])
    /\ \A i, j \in 1..Len(primaryNodes) : i < j => primaryNodes[i] < primaryNodes[j]

\* Several boundaries were taken, and a boundary that lies inside one of them
\* was not.
C18_Witness ==
  /\ pc # "select"
  /\ Len(primaryNodes) >= 2
  /\ \A i \in 1..Len(primaryNodes) : primaryNodes[i] \in OrigBoundaries
  /\ \E i \in 1..Len(primaryNodes) : \E n \in OrigBoundaries :
       /\ IsAncestor(primaryNodes[i], n)
       /\ \A j \in 1..Len(primaryNodes) : primaryNodes[j] # n

\* The boundaries the walk from r meets: at most 5 levels below r, with no
\* boundary between r and them.
FoundBoundaries(r) ==
  {s \in OrigBoundaries :
     /\ IsAncestor(r, s)
     /\ LevelsBelow(r, s) <= 5
     /\ \A a \in OrigBoundaries : ~(IsAncestor(r, a) /\ IsAncestor(a, s))}

\* The filtered content children of r in the input tree.
FilteredKids(r) ==
  {c \in 1..doc.n : doc.par[c] = r /\ ~isNonContentElement(c) /\ isComponentCandidate(c)}

\* The top-level candidates the selection rule gives for the root.
RuleNodes ==
  IF Cardinality(FoundBoundaries(root)) >= 2 THEN FoundBoundaries(root)
  ELSE IF \E c \in 1..doc.n : FilteredKids(root) = {c} /\ Cardinality(FilteredKids(c)) > 1
       THEN FilteredKids(CHOOSE c \in 1..doc.n : FilteredKids(root) = {c})
       ELSE FilteredKids(root)

\* C19: the top-level candidates are the boundaries found within 5 levels of
\* the root when there are at least 2 of them; otherwise they are the filtered
\* content children of the root, or those of its only filtered content child
\* when that child has more than one.
C19_SelectionRule ==
  AfterSelect =>
    /\ Range(primaryNodes) = RuleNodes
    /\ Len(primaryNodes) = Cardinality(RuleNodes)

\* One boundary was found, it is the only filtered content child of the root,
\* and its two filtered content children were taken instead, a <script>
\* beside them or not.
C19_Witness ==
  /\ AfterSelect
  /\ Cardinality(FoundBoundaries(root)) = 1
  /\ FilteredKids(root) = FoundBoundaries(root)
  /\ Len(primaryNodes) = 2
  /\ \A i \in 1..2 : doc.par[primaryNodes[i]] \in FoundBoundaries(root)

---------------------------------------------------------------------------
\* Nested candidates

\* n lies 1 to 6 levels below a top-level candidate.
BelowTopLevel(n) ==
  \E p \in Range(primaryNodes) : IsAncestor(p, n) /\ LevelsBelow(p, n) \in 1..6

\* C20: an element 1 to 6 levels below a top-level candidate that matches a
\* component keyword, is neither a non-content element nor embed-only, and has
\* at least 1 element child or at least 10 trimmed text characters is among
\* the candidates.
C20_KeywordThreshold ==
  AfterSelect =>
    \A n \in 1..doc.n :
      ( /\ BelowTopLevel(n)
        /\ hasComponentKeyword(n)
        /\ ~isNonContentElement(n) /\ ~isEmbedOnlyNode(n)
        /\ (elementChildCount(n) >= 1 \/ nodeTextLength(n) >= 10) )
      => n \in Range(components)

\* The candidate elements 1 to 6 levels below the top-level candidate p.
CandidatesBelow(p) ==
  {d \in 1..doc.n : IsAncestor(p, d) /\ LevelsBelow(p, d) \in 1..6 /\ isComponentCandidate(d)}

\* The occurrences of the PatternKey of n below the top-level candidate p.
Recurrence(p, n) ==
  Cardinality({d \in CandidatesBelow(p) : componentPatternKey(d) = componentPatternKey(n)})

\* n has a class or id, and 2 element children or 20 characters of text.
IdentifiedAndMeaningful(n) ==
  /\ (Attr(n).class # "" \/ Attr(n).id # "")
  /\ (elementChildCount(n) >= 2 \/ nodeTextLength(n) >= 20)

\* n is a nested candidate: a candidate that is not a top-level candidate.
NestedSelected(n) == n \in Range(components) /\ n \notin Range(primaryNodes)

\* n is neither a clickable control nor a component-keyword match.
PlainElement(n) == ~isButtonElement(n) /\ ~hasComponentKeyword(n)

\* C21 as stated: an element below a top-level candidate that is neither a
\* clickable control nor a keyword match is a nested candidate exactly when
\* its PatternKey occurs at least twice below that top-level candidate, it has
\* a class or id, and it has 2 element children or 20 characters.
C21_FrequencyRule ==
  AfterSelect =>
    \A p \in Range(primaryNodes) : \A n \in 1..doc.n :
      (IsAncestor(p, n) /\ LevelsBelow(p, n) \in 1..6 /\ PlainElement(n)) =>
        (NestedSelected(n) <=> (Recurrence(p, n) >= 2 /\ IdentifiedAndMeaningful(n)))

\* C21 amended: the same, for elements that are not excluded as non-content,
\* embed-only or layout container; an excluded element is no nested
\* candidate.
C21_FrequencyRuleUnlessExcluded ==
  AfterSelect =>
    \A p \in Range(primaryNodes) : \A n \in 1..doc.n :
      (IsAncestor(p, n) /\ LevelsBelow(p, n) \in 1..6 /\ PlainElement(n)) =>
        (NestedSelected(n) <=>
           /\ ~isNonContentElement(n) /\ ~isEmbedOnlyNode(n) /\ ~isLayoutContainer(n)
           /\ Recurrence(p, n) >= 2
           /\ IdentifiedAndMeaningful(n))

\* Below one top-level candidate: a classed element selected for recurring, a
\* second with the same PatternKey and 19 characters not selected, and a bare
\* <li> that recurs and is not selected.
C21_Witness ==
  /\ AfterSelect
  /\ \E p \in Range(primaryNodes) : \E a, b, c \in CandidatesBelow(p) :
       /\ PlainElement(a) /\ NestedSelected(a)
       /\ componentPatternKey(b) = componentPatternKey(a) /\ ~NestedSelected(b)
       /\ Attr(c).tag = "li" /\ ~NestedSelected(c)
  /\ \E n \in 1..doc.n : Attr(n).tag = "span" /\ ~NestedSelected(n)
                          /\ Cardinality({d \in 1..doc.n : Attr(d).tag = "span"}) = 2

\* n is a top-level candidate or lies at most 6 levels below one.
InReach(n) == n \in Range(primaryNodes) \/ BelowTopLevel(n)

\* n was extracted as a partial.
ExtractedNode(n) == \E i \in Extracted : resolved[i].Node = n

\* A <button>, an element with role="button", or an anchor with a button or
\* btn class, told from the attributes alone.
ClickableControl(n) ==
  \/ Attr(n).tag = "button"
  \/ ToLower(Attr(n).role) = "button"
  \/ /\ Attr(n).tag = "a"
     /\ (Contains(ToLower(Attr(n).class), "button") \/ Contains(ToLower(Attr(n).class), "btn"))

\* C22: when the call has returned, every clickable control that is a
\* top-level candidate or lies at most 6 levels below one has been
\* extracted as a partial.
C22_ControlsExtracted ==
  pc = "done" => \A n \in 1..doc.n : (ClickableControl(n) /\ InReach(n)) => ExtractedNode(n)

---------------------------------------------------------------------------
\* Embeds

\* The element children of n in the input tree.
OrigKids(n) == {c \in 1..doc.n : doc.par[c] = n}

\* n has text that is not blank.
VisibleText(n) == TrimSpace(Attr(n).text) # ""

\* n has children, all of them <style> or <script>, and no visible text.
OnlyStyleOrScript(n) ==
  /\ OrigKids(n) # {}
  /\ \A c \in OrigKids(n) : Attr(c).tag \in {"style", "script"}
  /\ ~VisibleText(n)

\* C23: an element whose only children are style or script elements and that
\* has no visible text is not among the candidates, whatever its class; and an
\* element with visible text or with another child is not taken for
\* embed-only.
C23_EmbedOnlyExcluded ==
  AfterSelect =>
    \A n \in 1..doc.n :
      /\ OnlyStyleOrScript(n) => n \notin Range(components)
      /\ (VisibleText(n) \/ \E c \in OrigKids(n) : Attr(c).tag \notin {"style", "script"})
           => ~isEmbedOnlyNode(n)

---------------------------------------------------------------------------
\* PatternKey

\* The classes of n in lower case, state classes left out, as a set.
ClassSet(n) ==
  LET fs == Fields(Attr(n).class)
  IN  {c \in {ToLower(fs[i]) : i \in 1..Len(fs)} : ~isStateClass(c)}

\* C24: once the candidates are selected, two elements with the same tag and the same set of lower-cased
\* classes that are no state classes have the same PatternKey, and an
\* element without such a class has its tag as PatternKey.
C24_KeyOfClassSet ==
  AfterSelect =>
    /\ \A a, b \in 1..doc.n :
         (Attr(a).tag = Attr(b).tag /\ ClassSet(a) = ClassSet(b))
           => componentPatternKey(a) = componentPatternKey(b)
    /\ \A a \in 1..doc.n : ClassSet(a) = {} => componentPatternKey(a) = Attr(a).tag

\* Two elements whose class attributes differ in order, case and repetition
\* were selected for recurring together, beside an element with state classes
\* only.
C24_Witness ==
  /\ AfterSelect
  /\ \E p \in Range(primaryNodes) : \E a, b, c \in CandidatesBelow(p) :
       /\ Attr(a).class = "promo teaser" /\ Attr(b).class = "Teaser  promo promo"
       /\ Recurrence(p, a) = 2
       /\ NestedSelected(a) /\ NestedSelected(b)
       /\ Attr(c).class = "selected js-x" /\ componentPatternKey(c) = "div"

---------------------------------------------------------------------------
\* Names

SlugChars == LowerSet \cup DigitSet \cup {"-"}

\* s is not empty, is made of a-z, 0-9 and '-', and has no '-' at either end
\* and no two '-' in a row.
ValidSlug(s) ==
  /\ Len(s) > 0
  /\ \A i \in 1..Len(s) : Chr(s, i) \in SlugChars
  /\ Chr(s, 1) # "-" /\ Chr(s, Len(s)) # "-"
  /\ \A i \in 1..(Len(s) - 1) : ~(Chr(s, i) = "-" /\ Chr(s, i + 1) = "-")

\* The tag of n with its id or its first class, as put together before
\* sanitizing.
RawName(n) ==
  IF Attr(n).id # "" THEN Attr(n).tag \o "-" \o Attr(n).id
  ELSE IF Len(Fields(Attr(n).class)) > 0 THEN Attr(n).tag \o "-" \o Fields(Attr(n).class)[1]
  ELSE Attr(n).tag

\* C25: every name given to a partial is a valid slug, the names with a
\* counter suffix included, and sanitizing a sanitized name changes nothing.
C25_SafeSlugs ==
  /\ \A i \in Extracted : ValidSlug(resolved[i].Name)
  /\ pc = "done" => \A name \in DOMAIN partials : ValidSlug(name)
  /\ \A i \in Extracted :
       LET once == sanitizeComponentName(RawName(resolved[i].Node))
       IN  sanitizeComponentName(once) = once

\* Names were given to an element whose id has punctuation at both ends and
\* to two elements whose classes give the same slug, the second with a suffix.
C25_Witness ==
  /\ pc = "done"
  /\ \E i, j, k \in Extracted :
       /\ Attr(resolved[i].Node).id = "-X.y-" /\ resolved[i].Name = "div-x-y"
       /\ Attr(resolved[j].Node).class = "__Card!!Big"
       /\ Attr(resolved[k].Node).class = "card--big"
       /\ {resolved[j].Name, resolved[k].Name} = {"div-card-big", "div-card-big-2"}

---------------------------------------------------------------------------
\* Capture

\* The elements below a in the tree as it stands.
RECURSIVE LiveBelow(_)
LiveBelow(a) ==
  LET ks == {children[a][i].id : i \in {k \in 1..Len(children[a]) : children[a][k].kind = "el"}}
  IN  ks \cup UNION {LiveBelow(k) : k \in ks}

\* The placeholders below a in the tree as it stands.
PlaceholdersBelow(a) ==
  UNION {{children[m][i] : i \in {k \in 1..Len(children[m]) : children[m][k].kind = "ph"}} :
           m \in {a} \cup LiveBelow(a)}

ExtractedNodes == {resolved[i].Node : i \in Extracted}

\* C26: the candidate the loop is about to process is still attached to its
\* parent and every extracted candidate below it has given way to its
\* placeholder; a captured body is the rendering of a subtree that holds no
\* extracted candidate, and the body returned for it holds the include
\* directive of every extracted candidate that was below it.
C26_CaptureTiming ==
  /\ (pc = "loop" /\ idx < Len(components)) =>
       LET c == components[idx + 1]
       IN  /\ parent[c] = doc.par[c]
           /\ InList(children[doc.par[c]], El(c))
           /\ \A j \in Extracted :
                IsAncestor(c, resolved[j].Node) =>
                  /\ resolved[j].Node \notin LiveBelow(c)
                  /\ InList(children[doc.par[resolved[j].Node]],
                            Ph(resolved[j].Node, resolved[j].Name))
                  /\ doc.par[resolved[j].Node] \in {c} \cup LiveBelow(c) =>
                       Ph(resolved[j].Node, resolved[j].Name) \in PlaceholdersBelow(c)
  /\ \A i \in Extracted :
       /\ resolved[i].HTML = renderIn(children, resolved[i].Node)
       /\ LiveBelow(resolved[i].Node) \cap ExtractedNodes = {}
  /\ pc = "done" =>
       \A i, j \in Extracted :
         doc.par[resolved[j].Node] = resolved[i].Node =>
           Contains(bodyOf(i), includeOf(resolved[j].Name))

\* The loop is about to capture a candidate below which one candidate was
\* extracted that itself had an extracted candidate below it.
C26_Witness ==
  /\ pc = "loop" /\ idx < Len(components)
  /\ \E i, j \in Extracted :
       /\ IsAncestor(components[idx + 1], resolved[i].Node)
       /\ IsAncestor(resolved[i].Node, resolved[j].Node)
       /\ Contains(resolved[i].HTML, placeholderOf(resolved[j].Name))

---------------------------------------------------------------------------
\* The tree after the loop

\* The place of the entry e in the child list of p.
PlaceIn(p, e) == CHOOSE k \in 1..Len(children[p]) : children[p][k] = e

\* n is neither an extracted candidate nor inside one.
Remaining(n) == n \notin ExtractedNodes /\ \A e \in ExtractedNodes : ~IsAncestor(e, n)

\* C27: when the call has returned, every extracted candidate has no parent
\* and is not reachable from <body>, and every element that is neither
\* extracted nor inside an extracted candidate is reachable, under its
\* original parent, in its original order among the siblings that remain.
C27_DetachedAndKept ==
  pc = "done" =>
    /\ \A e \in ExtractedNodes : parent[e] = Nil /\ e \notin LiveBelow(Body)
    /\ \A n \in 1..doc.n :
         Remaining(n) =>
           /\ n \in LiveBelow(Body)
           /\ parent[n] = doc.par[n]
           /\ InList(children[doc.par[n]], El(n))
           /\ \A m \in 1..doc.n :
                (Remaining(m) /\ doc.par[m] = doc.par[n] /\ n < m) =>
                  PlaceIn(doc.par[n], El(n)) < PlaceIn(doc.par[n], El(m))

\* A finished run that left two sibling elements in the tree, each with an
\* extracted child, and an extracted sibling between or beside them.
C27_Witness ==
  /\ pc = "done"
  /\ \E n, m \in 1..doc.n :
       /\ n < m /\ doc.par[n] = doc.par[m]
       /\ Remaining(n) /\ Remaining(m)
       /\ \E e \in ExtractedNodes : doc.par[e] = n
  /\ Cardinality(ExtractedNodes) >= 2

\* One step of the call, as far as the tree goes: a step of the loop that
\* processes the candidate c changes at most the child list of the parent of
\* c and the parent of c; every other step leaves the tree as it is.
TreeStep ==
  /\ doc' = doc
  /\ IF pc = "loop" /\ idx < Len(components)
     THEN LET c == components[idx + 1]
          IN  /\ \A m \in Nodes : m # doc.par[c] => children'[m] = children[m]
              /\ \A n \in Nodes : n # c => parent'[n] = parent[n]
              /\ Len(children'[doc.par[c]]) = Len(children[doc.par[c]])
              /\ \A k \in 1..Len(children[doc.par[c]]) :
                   children[doc.par[c]][k] # El(c) =>
                     children'[doc.par[c]][k] = children[doc.par[c]][k]
     ELSE parent' = parent /\ children' = children

\* C28: selection, collection, de-duplication, sorting and the final
\* rendering leave every node's parent, children and attributes unchanged;
\* one replacement changes only the entry of the candidate in the child list
\* of its parent and the candidate's own parent.
C28_OnlyReplacementMutates == [][TreeStep]_vars

\* A candidate with children of its own was replaced while a sibling element
\* of it stayed in the child list of its parent.
C28_Witness ==
  /\ pc = "loop" /\ idx >= 1
  /\ \E i \in Extracted :
       /\ Len(children[resolved[i].Node]) > 0
       /\ \E k \in 1..Len(children[doc.par[resolved[i].Node]]) :
            children[doc.par[resolved[i].Node]][k].kind = "el"

---------------------------------------------------------------------------
\* Order of the replacements

ResolvedNames == {resolved[i].Name : i \in Extracted}

\* Every order in which the keys of the replacement map can be visited.
Perms(S) ==
  {q \in [1..Cardinality(S) -> S] : \A i, j \in 1..Cardinality(S) : i # j => q[i] # q[j]}

\* The strings applyIncludeReplacements is called on: the formatted main
\* document and every captured body.
ReplacedStrings == {Format(children)} \cup {resolved[i].HTML : i \in Extracted}

\* C29: when the loop has ended, applying the replacements to the main
\* document and to every captured body gives the same string in every order
\* of the names, and no placeholder is part of another placeholder or of an
\* include directive.
C29_OrderIndependent ==
  (pc = "loop" /\ idx = Len(components)) =>
    /\ \A content \in ReplacedStrings : \A order \in Perms(ResolvedNames) :
         applyInOrder(content, order) = applyInOrder(content, namesInOrder(resolved, <<>>))
    /\ \A a, b \in ResolvedNames :
         /\ a # b => ~Contains(placeholderOf(b), placeholderOf(a))
         /\ ~Contains(includeOf(b), placeholderOf(a))

\* The loop has ended with three names, one of them another with a counter
\* suffix, and with a placeholder inside a captured body.
C29_Witness ==
  /\ pc = "loop" /\ idx = Len(components)
  /\ Cardinality(ResolvedNames) = 3
  /\ {"div-card-big", "div-card-big-2"} \subseteq ResolvedNames
  /\ \E i \in Extracted : Contains(resolved[i].HTML, MarkerPrefix)

---------------------------------------------------------------------------
\* Candidates and the root

\* <body>, the root and the wrappers between them.
SkippedShells == {n \in Nodes : n = root \/ IsAncestor(n, root)}

\* C30: every candidate and every extracted node lies properly below the
\* root; <body>, the root and the wrappers skipped on the way to it are
\* neither candidates nor extracted, section boundaries among them included.
C30_CandidatesBelowRoot ==
  pc # "select" =>
    /\ \A c \in Range(components) \cup Range(primaryNodes) \cup ExtractedNodes :
         IsAncestor(root, c)
    /\ SkippedShells \cap (Range(components) \cup ExtractedNodes) = {}

\* A finished run whose root is a <section class="hero"> reached through
\* sections of the same kind, with partials extracted below it.
C30_Witness ==
  /\ pc = "done"
  /\ root # Body
  /\ \A n \in SkippedShells : n # Body => (isSectionBoundary(n) /\ Attr(n).class = "hero")
  /\ Len(resolved) >= 2

====
